---- MODULE Spec2Model ----
(***************************************************************************)
(* Model of RealCase.py: network reduction (adjust_network_size),          *)
(* task-edge selection (create_network_with_basemap, lines 68-73), the     *)
(* index-based export (export_network_to_json_format) and the driver       *)
(* main().                                                                 *)
(*                                                                         *)
(* A graph is a record [nodes, edges]: nodes is a set of node ids whose    *)
(* iteration order is the ascending order of the ids, edges is the         *)
(* sequence G.edges() iterates, one record [u, v, length] per edge, so     *)
(* parallel edges and self-loops are separate entries.  Lengths are kept   *)
(* in tenths of a metre (1007 is 100.7 m) so that int() of a fractional    *)
(* length is observable; exported weights are in the same unit (one unit   *)
(* is 0.0001 km).  NoLength marks an edge without a 'length' attribute.    *)
(***************************************************************************)
EXTENDS Integers, Sequences, FiniteSets, TLC

VARIABLES call, pc, G, arg, target_nodes, edges, idx,
          num_task_edges, task_edge_pairs, result, dist, reduced

vars == <<call, pc, G, arg, target_nodes, edges, idx,
          num_task_edges, task_edge_pairs, result, dist, reduced>>

\* ---------------------------------------------------------------- bounds
MaxN == 4
MaxE == 4
MaxAnyN == 2
MaxK == 2
MaxGrow == 2

\* ------------------------------------------------------------- constants
NoLength == -1
None == [nodes |-> {-1}, edges |-> <<>>]
NoResult == [node_coords |-> <<>>, edges_data |-> <<>>, task_edges_list |-> {<<-1, -1>>}]

Range(s) == {s[j] : j \in 1..Len(s)}

Edge(a, b, l) == [u |-> a, v |-> b, length |-> l]

\* ------------------------------------------------------- graph queries
\* nodes adjacent to some node of S, over the edge sequence es
Neighbours(S, es) ==
    {e.v : e \in {x \in Range(es) : x.u \in S}} \cup
    {e.u : e \in {x \in Range(es) : x.v \in S}}

RECURSIVE Reach(_, _)
Reach(S, es) ==
    LET T == S \cup Neighbours(S, es)
    IN IF T = S THEN S ELSE Reach(T, es)

\* the component of node n in graph g
Component(g, n) == Reach({n}, g.edges) \cap g.nodes

\* nx.connected_components(G): the components in discovery order, which is
\* the order of their first (smallest) node
connected_components(g) == {Component(g, n) : n \in g.nodes}

MinOf(S) == CHOOSE x \in S : \A y \in S : x <= y

\* max(nx.connected_components(G), key=len): the first of the largest ones
largest_cc(g) ==
    LET cs == connected_components(g)
    IN CHOOSE c \in cs :
          \A d \in cs : \/ Cardinality(d) < Cardinality(c)
                        \/ Cardinality(d) = Cardinality(c) /\ MinOf(c) <= MinOf(d)

\* subgraph() that filters the edges and keeps every node of g
subgraph_keeping_nodes(g, ns) ==
    [nodes |-> g.nodes,
     edges |-> SelectSeq(g.edges, LAMBDA e : e.u \in ns /\ e.v \in ns)]

\* G.subgraph(ns).copy(): the nodes ns and the edges among them, in order
subgraph(g, ns) ==
    [nodes |-> g.nodes \cap ns,
     edges |-> SelectSeq(g.edges, LAMBDA e : e.u \in ns /\ e.v \in ns)]

\* nx.is_connected(G.to_undirected()): every node of the graph, the ones
\* without any edge included, is reachable from any one node
is_connected(g) ==
    \A n \in g.nodes : Component(g, n) = g.nodes

\* position of the edge G.remove_edge(u, v) removes: with no key given, the
\* edge between u and v that was added last
LastEdge(es, a, b) ==
    LET hits == {j \in 1..Len(es) : es[j].u = a /\ es[j].v = b}
    IN CHOOSE j \in hits : \A k \in hits : k <= j

RemoveAt(es, j) == [k \in 1..(Len(es) - 1) |-> IF k < j THEN es[k] ELSE es[k + 1]]

remove_edge(g, a, b) ==
    [nodes |-> g.nodes, edges |-> RemoveAt(g.edges, LastEdge(g.edges, a, b))]

\* G.add_edge(u, v): a new edge between u and v carrying no attribute
add_edge(g, a, b) ==
    [nodes |-> g.nodes \cup {a, b}, edges |-> Append(g.edges, Edge(a, b, NoLength))]

\* ox.graph_from_gdfs(ox.graph_to_gdfs(G)): the graph rebuilt from its edge
\* table; keep says whether the library build adds the nodes no edge touches
graph_from_gdfs(g, keep) ==
    [nodes |-> IF keep THEN g.nodes
               ELSE {n \in g.nodes : \E e \in Range(g.edges) : n \in {e.u, e.v}},
     edges |-> g.edges]

\* ------------------------------------------------------- input graphs
\* endpoint pairs over the nodes 1..n, as an undirected graph reports them
PairsOf(n) == {p \in (1..n) \X (1..n) : p[1] <= p[2]}

PairLE(p, q) == p[1] < q[1] \/ (p[1] = q[1] /\ p[2] <= q[2])

\* edge lists of m edges over the pairs P in iteration order (grouped by first
\* endpoint); the same pair may repeat (parallel edges)
EdgeLists(P, m) ==
    {ps \in [1..m -> P] : \A j \in 1..(m - 1) : PairLE(ps[j], ps[j + 1])}

\* the j-th edge is j * 100 m long (the lengths 100, 200, 300, 400 m of the
\* 4-cycle scenario)
RoadLength(j) == j * 1000

RoadGraph(n, ps) ==
    [nodes |-> 1..n,
     edges |-> [j \in 1..Len(ps) |-> Edge(ps[j][1], ps[j][2], RoadLength(j))]]

\* road networks of at most MaxN intersections and MaxE road segments, each
\* joining two intersections, any number of them parallel, connected or not
RoadGraphs ==
    UNION {UNION {{RoadGraph(n, ps) :
                      ps \in EdgeLists({p \in PairsOf(n) : p[1] # p[2]}, m)} :
                  m \in 0..MaxE} : n \in 0..MaxN}

\* --------------------------------------------------- adjust_network_size
\* lines 149-153: the graphs here are undirected already; the largest
\* component replaces G; max() of no component raises ValueError
LargestComponent ==
    /\ pc = "adjust_network_size"
    /\ IF G.nodes = {}
       THEN /\ pc' = "raise"
            /\ G' = G
       ELSE /\ pc' = "while"
            /\ G' = subgraph(G, largest_cc(G))
    /\ UNCHANGED <<call, arg, target_nodes, edges, idx, num_task_edges,
                   task_edge_pairs, result, dist, reduced>>

\* list(G.edges()): the endpoint pairs, one per edge
EdgeList(g) == [j \in 1..Len(g.edges) |-> <<g.edges[j].u, g.edges[j].v>>]

\* lines 155-160 and 168: the while test, the rebuild of G from its tables
\* (graph_to_gdfs raises ValueError on a graph without edges), the second
\* test and the snapshot of the edge list
WhileTest ==
    /\ pc = "while"
    /\ IF Cardinality(G.nodes) > target_nodes
       THEN IF G.edges = <<>>
            THEN /\ pc' = "raise"
                 /\ UNCHANGED <<G, edges, idx>>
            ELSE \E keep \in BOOLEAN :
                   /\ G' = graph_from_gdfs(G, keep)
                   /\ IF Cardinality(G'.nodes) > target_nodes
                      THEN /\ edges' = EdgeList(G')
                           /\ idx' = 1
                           /\ pc' = "for"
                      ELSE /\ pc' = "while"
                           /\ UNCHANGED <<edges, idx>>
       ELSE /\ pc' = "return"
            /\ UNCHANGED <<G, edges, idx>>
    /\ UNCHANGED <<call, arg, target_nodes, num_task_edges,
                   task_edge_pairs, result, dist, reduced>>

\* lines 161-164: the next edge of the snapshot is removed, unless the
\* snapshot is exhausted or the node count has reached the target
ForEdge ==
    /\ pc = "for"
    /\ IF idx > Len(edges) \/ Cardinality(G.nodes) <= target_nodes
       THEN /\ pc' = "while"
            /\ G' = G
       ELSE /\ pc' = "check"
            /\ G' = remove_edge(G, edges[idx][1], edges[idx][2])
    /\ UNCHANGED <<call, arg, target_nodes, edges, idx, num_task_edges,
                   task_edge_pairs, result, dist, reduced>>

\* lines 165-166: the removal is undone when the graph is no longer connected
CheckConnected ==
    /\ pc = "check"
    /\ G' = IF ~is_connected(G)
            THEN add_edge(G, edges[idx][1], edges[idx][2])
            ELSE G
    /\ idx' = idx + 1
    /\ pc' = "for"
    /\ UNCHANGED <<call, arg, target_nodes, edges, num_task_edges,
                   task_edge_pairs, result, dist, reduced>>

adjust_network_size == LargestComponent \/ WhileTest \/ ForEdge \/ CheckConnected

\* a call adjust_network_size(G, target_nodes) on any road graph
InitReduce ==
    /\ call = "adjust_network_size"
    /\ pc = "adjust_network_size"
    /\ arg \in RoadGraphs
    /\ G = arg
    /\ target_nodes \in 0..MaxN
    /\ edges = <<>>
    /\ idx = 0
    /\ num_task_edges = 0
    /\ task_edge_pairs = {}
    /\ result = NoResult
    /\ dist = 0
    /\ reduced = None

NextReduce == adjust_network_size

SpecReduce == InitReduce /\ [][NextReduce]_vars

\* the length of an edge: 100.7 m, or missing
EdgeLengths == {1007, NoLength}

AnyGraph(n, ps, ls) ==
    [nodes |-> 1..n,
     edges |-> [j \in 1..Len(ps) |-> Edge(ps[j][1], ps[j][2], ls[j])]]

\* g is a graph of at most MaxAnyN nodes and MaxE edges, self-loops and
\* parallel edges included, with any of the lengths on each edge
IsAnyGraph(g) ==
    \E n \in 0..MaxAnyN : \E m \in 0..MaxE :
        \E ps \in EdgeLists(PairsOf(n), m) : \E ls \in [1..m -> EdgeLengths] :
            g = AnyGraph(n, ps, ls)

\* ------------------------------ create_network_with_basemap, lines 68-73
Min(a, b) == IF a <= b THEN a ELSE b

\* x[2].get('length', 0)
SortKey(e) == IF e.length = NoLength THEN 0 ELSE e.length

\* sorted(all_edges, key=..., reverse=True): longest first, edges of equal
\* length in their original order
sorted_edges(es) ==
    LET before(k, j) == \/ SortKey(es[k]) > SortKey(es[j])
                        \/ SortKey(es[k]) = SortKey(es[j]) /\ k < j
        rank(j) == Cardinality({k \in 1..Len(es) : before(k, j)}) + 1
    IN [r \in 1..Len(es) |-> es[CHOOSE j \in 1..Len(es) : rank(j) = r]]

\* the candidate pool with the half rounded up
candidate_edges_rounded_up(g) ==
    LET s == sorted_edges(g.edges) IN SubSeq(s, 1, (Len(s) + 1) \div 2)

\* sorted_edges[:len(sorted_edges)//2]
candidate_edges(g) ==
    LET s == sorted_edges(g.edges) IN SubSeq(s, 1, Len(s) \div 2)

\* the number of edges random.sample is asked for
sample_size(k, cand) == Min(k, Len(cand))

\* random.sample(candidate_edges, n): any n positions of the list
Samples(cand, n) == {S \in SUBSET (1..Len(cand)) : Cardinality(S) = n}

\* set((u, v) for u, v, _ in task_edges)
pairs_of(cand, S) == {<<cand[j].u, cand[j].v>> : j \in S}

\* the task-edge sets the selection can return on graph g for k task edges
task_edge_sets(g, k) ==
    LET cand == candidate_edges(g)
    IN {pairs_of(cand, S) : S \in Samples(cand, sample_size(k, cand))}

\* the selection step of create_network_with_basemap on a given graph
SelectTaskEdges ==
    /\ pc = "create_network_with_basemap"
    /\ task_edge_pairs' \in task_edge_sets(G, num_task_edges)
    /\ pc' = "return"
    /\ UNCHANGED <<call, G, arg, target_nodes, edges, idx, num_task_edges,
                   result, dist, reduced>>

InitSelect ==
    /\ call = "create_network_with_basemap"
    /\ pc = "create_network_with_basemap"
    /\ IsAnyGraph(arg)
    /\ G = arg
    /\ num_task_edges \in 0..MaxK
    /\ target_nodes = 0
    /\ edges = <<>>
    /\ idx = 0
    /\ task_edge_pairs = {}
    /\ result = NoResult
    /\ dist = 0
    /\ reduced = None

NextSelect == SelectTaskEdges

SpecSelect == InitSelect /\ [][NextSelect]_vars

\* ------------------------------------------ export_network_to_json_format
\* G.nodes() in iteration order
NodeList(g) ==
    [i \in 1..Cardinality(g.nodes) |->
        CHOOSE n \in g.nodes : Cardinality({m \in g.nodes : m < n}) = i - 1]

\* the index mapping counted from one, enumerate(G.nodes(), 1)
node_to_index_from_one(g, n) == CHOOSE i \in 1..Cardinality(g.nodes) : NodeList(g)[i] = n

\* {node: i for i, node in enumerate(G.nodes())}[n]
node_to_index(g, n) == (CHOOSE i \in 1..Cardinality(g.nodes) : NodeList(g)[i] = n) - 1

\* [G.nodes[node]['x'], G.nodes[node]['y']]: the coordinates of a node, which
\* differ from node to node
Coord(n) == <<1164000 + n, 399000 + n>>

node_coords(g) == [i \in 1..Cardinality(g.nodes) |-> Coord(NodeList(g)[i])]

\* int(data.get('length', 1)): whole metres, one metre when there is none
IntLength(e) == IF e.length = NoLength THEN 1 ELSE e.length \div 10

\* float(length/1000), in units of 0.0001 km
LengthKm(e) == IntLength(e) * 10

\* the edge list without line 189: one triple per edge
edges_data_one_way(g) ==
    [k \in 1..Len(g.edges) |->
        <<node_to_index(g, g.edges[k].u), node_to_index(g, g.edges[k].v),
          LengthKm(g.edges[k])>>]

\* the two triples line 188 and line 189 append for each edge
edges_data(g) ==
    [k \in 1..(2 * Len(g.edges)) |->
        LET e == g.edges[(k + 1) \div 2]
        IN IF k % 2 = 1
           THEN <<node_to_index(g, e.u), node_to_index(g, e.v), LengthKm(e)>>
           ELSE <<node_to_index(g, e.v), node_to_index(g, e.u), LengthKm(e)>>]

\* line 192, as the set of its entries (the order is the set's)
task_edges_list(g, pairs) ==
    {<<node_to_index(g, p[1]), node_to_index(g, p[2])>> : p \in pairs}

export_result(g, pairs) ==
    [node_coords |-> node_coords(g),
     edges_data |-> edges_data(g),
     task_edges_list |-> task_edges_list(g, pairs)]

ExportNetwork ==
    /\ pc = "export_network_to_json_format"
    /\ result' = export_result(G, task_edge_pairs)
    /\ pc' = "return"
    /\ UNCHANGED <<call, G, arg, target_nodes, edges, idx, num_task_edges,
                   task_edge_pairs, dist, reduced>>

\* the endpoint pairs of the edges of g
EdgePairs(g) == {<<e.u, e.v>> : e \in Range(g.edges)}

\* a call export_network_to_json_format(G, task_edge_pairs) on any graph,
\* with task edges as the selection returns them for it
InitExport ==
    /\ call = "export_network_to_json_format"
    /\ pc = "export_network_to_json_format"
    /\ IsAnyGraph(arg)
    /\ G = arg
    /\ task_edge_pairs \in UNION {task_edge_sets(arg, k) : k \in 0..MaxK}
    /\ num_task_edges = 0
    /\ target_nodes = 0
    /\ edges = <<>>
    /\ idx = 0
    /\ result = NoResult
    /\ dist = 0
    /\ reduced = None

NextExport == ExportNetwork

SpecExport == InitExport /\ [][NextExport]_vars

\* ------------------------------------------------------------------ main
\* num_task_edges=20, the default main() leaves in place
DefaultTaskEdges == 20

\* the node counts main() compares with, 100 and 120 in the source and the
\* target 100 of the reduction, brought to the scale of the modelled graphs:
\* grow below MaxN - 2 nodes, reduce above MaxN - 1 nodes, to MaxN - 2 nodes
GrowBelow == MaxN - 2
ReduceAbove == MaxN - 1
ReduceTarget == MaxN - 2

\* the graphs ox.graph_from_point can hand back: road graphs of one node or more
Downloads == {g \in RoadGraphs : g.nodes # {}}

\* line 215: the first create_network_with_basemap, with dist = 300; it
\* downloads the graph and selects the task edges on it
MainCreate ==
    /\ call = "main"
    /\ pc = "main"
    /\ G' = arg
    /\ task_edge_pairs' \in task_edge_sets(arg, DefaultTaskEdges)
    /\ pc' = "main_while"
    /\ UNCHANGED <<call, arg, target_nodes, edges, idx, num_task_edges,
                   result, dist, reduced>>

\* lines 218-220: below GrowBelow nodes the distance grows by 50 and the
\* network is created again, from what the map source holds at that distance
MainWhile ==
    /\ call = "main"
    /\ pc = "main_while"
    /\ IF Cardinality(G.nodes) < GrowBelow
       THEN /\ dist < 300 + 50 * MaxGrow
            /\ dist' = dist + 50
            /\ arg' \in Downloads
            /\ G' = arg'
            /\ task_edge_pairs' \in task_edge_sets(arg', DefaultTaskEdges)
            /\ pc' = "main_while"
       ELSE /\ pc' = "main_if"
            /\ UNCHANGED <<dist, arg, G, task_edge_pairs>>
    /\ UNCHANGED <<call, target_nodes, edges, idx, num_task_edges, result, reduced>>

\* lines 223-224: above ReduceAbove nodes adjust_network_size is called
MainIf ==
    /\ call = "main"
    /\ pc = "main_if"
    /\ IF Cardinality(G.nodes) > ReduceAbove
       THEN /\ pc' = "adjust_network_size"
            /\ target_nodes' = ReduceTarget
       ELSE /\ pc' = "main_export"
            /\ UNCHANGED target_nodes
    /\ UNCHANGED <<call, G, arg, edges, idx, num_task_edges, task_edge_pairs,
                   result, dist, reduced>>

\* lines 224-225: the reducer's graph is bound to G, and the next line binds
\* G and task_edges again, to a network created anew at the same distance
MainAfterReduce ==
    /\ call = "main"
    /\ pc = "return"
    /\ reduced' = G
    /\ G' = arg
    /\ task_edge_pairs' \in task_edge_sets(arg, DefaultTaskEdges)
    /\ pc' = "main_export"
    /\ UNCHANGED <<call, arg, target_nodes, edges, idx, num_task_edges,
                   result, dist>>

\* line 233: the export of G and task_edges
MainExport ==
    /\ call = "main"
    /\ pc = "main_export"
    /\ result' = export_result(G, task_edge_pairs)
    /\ pc' = "main_return"
    /\ UNCHANGED <<call, G, arg, target_nodes, edges, idx, num_task_edges,
                   task_edge_pairs, dist, reduced>>

\* lines 240-242: a download that raises ends main() with (None, None, None)
MainExcept ==
    /\ call = "main"
    /\ \/ pc = "main"
       \/ pc = "main_while" /\ Cardinality(G.nodes) < GrowBelow
    /\ pc' = "main_except"
    /\ UNCHANGED <<call, G, arg, target_nodes, edges, idx, num_task_edges,
                   task_edge_pairs, result, dist, reduced>>

InitMain ==
    /\ call = "main"
    /\ pc = "main"
    /\ arg \in Downloads
    /\ G = None
    /\ dist = 300
    /\ num_task_edges = DefaultTaskEdges
    /\ target_nodes = 0
    /\ edges = <<>>
    /\ idx = 0
    /\ task_edge_pairs = {}
    /\ result = NoResult
    /\ reduced = None

NextMain ==
    \/ MainCreate
    \/ MainWhile
    \/ MainIf
    \/ adjust_network_size
    \/ MainAfterReduce
    \/ MainExport
    \/ MainExcept

SpecMain == InitMain /\ [][NextMain]_vars

\* ----------------------------------------------- claims on the reducer
Count(es, e) == Cardinality({j \in 1..Len(es) : es[j] = e})

\* the graph restricted to its nodes of degree > 0
PositiveDegree(g) == graph_from_gdfs(g, FALSE)

\* C1: whenever adjust_network_size returns, the returned graph is a single
\* connected component: every node is reachable from every other node.
C1_ReturnedGraphConnected ==
    (call = "adjust_network_size" /\ pc = "return") =>
        /\ G.nodes # {}
        /\ \A a \in G.nodes : \A b \in G.nodes : b \in Reach({a}, G.edges)

\* a call has returned the largest component of a graph that was not connected
C1_Witness ==
    /\ call = "adjust_network_size"
    /\ pc = "return"
    /\ ~is_connected(arg)
    /\ Cardinality(G.nodes) >= 2

\* C2: a pass over the snapshot that removed no edge while the node count is
\* still above the target ends the reducer: it returns instead of starting
\* another pass.
C2_StalledPassReturns ==
    [][(/\ pc = "while"
        /\ edges # <<>>
        /\ Len(G.edges) = Len(edges)
        /\ Cardinality(G.nodes) > target_nodes) => pc' = "return"]_vars

\* C3: a tentative removal that leaves the nodes of degree > 0 connected is
\* kept, and the endpoints it isolated leave the node set.
C3_IsolatingRemovalKept ==
    [][(/\ pc = "check"
        /\ PositiveDegree(G).nodes # {}
        /\ is_connected(PositiveDegree(G)))
         => (G'.edges = G.edges /\ G'.nodes = PositiveDegree(G).nodes)]_vars

\* C9: at every point of the reducer each edge of the graph is an edge of
\* the input with the same endpoints and the same length (the surviving
\* edges are a sub-multiset of the input's edges).
C9_SurvivingEdgesUnchanged ==
    call = "adjust_network_size" =>
        \A e \in Range(G.edges) : Count(G.edges, e) <= Count(arg.edges, e)

\* ------------------------------------- claims on export and selection
\* C4: the exported edge list has exactly 2 * |edges(G)| entries, and with
\* every triple [a, b, w] it holds a triple [b, a, w] of the same w.
C4_EdgeListSymmetric ==
    (call = "export_network_to_json_format" /\ pc = "return") =>
        /\ Len(result.edges_data) = 2 * Len(G.edges)
        /\ \A t \in Range(result.edges_data) :
             <<t[2], t[1], t[3]>> \in Range(result.edges_data)

\* an export of a graph with two nodes joined by an edge, and a second edge
\* parallel to it or a self-loop
C4_Witness ==
    /\ call = "export_network_to_json_format"
    /\ pc = "return"
    /\ \E j \in 1..Len(G.edges) : \E k \in 1..Len(G.edges) :
          /\ j < k
          /\ G.edges[j].u # G.edges[j].v
          /\ \/ <<G.edges[k].u, G.edges[k].v>> = <<G.edges[j].u, G.edges[j].v>>
             \/ G.edges[k].u = G.edges[k].v

\* the length of an edge in units of 0.0001 km, exactly: length_m / 1000,
\* and 0.001 km for an edge without length
ExactKm(e) == IF e.length = NoLength THEN 10 ELSE e.length

\* C7: both triples of every edge carry length_m / 1000 exactly, with no
\* rounding or truncation of the metre value, and 0.001 for a missing length.
C7_WeightIsExactKm ==
    (call = "export_network_to_json_format" /\ pc = "return") =>
        \A j \in 1..Len(G.edges) :
            /\ result.edges_data[2 * j - 1][3] = ExactKm(G.edges[j])
            /\ result.edges_data[2 * j][3] = ExactKm(G.edges[j])

\* C8: on a graph of zero nodes an operation fails instead of returning; in
\* particular export returns no record of empty lists.
C8_EmptyGraphFails ==
    arg.nodes = {} => pc # "return"

\* C6: the selection returns exactly min(k, floor(|E(G)| / 2)) task edges,
\* parallel edges included.
C6_ExactSampleSize ==
    (call = "create_network_with_basemap" /\ pc = "return") =>
        Cardinality(task_edge_pairs) = Min(num_task_edges, Len(G.edges) \div 2)

NoParallelEdges(g) ==
    \A j \in 1..Len(g.edges) : \A k \in 1..Len(g.edges) :
        (j # k) => <<g.edges[j].u, g.edges[j].v>> # <<g.edges[k].u, g.edges[k].v>>

\* C6, amended: the returned set holds endpoint pairs of edges of G, at most
\* min(k, floor(|E(G)| / 2)) of them, and exactly that many when G has no
\* parallel edges.
C6_SampleSizeBound ==
    (call = "create_network_with_basemap" /\ pc = "return") =>
        /\ task_edge_pairs \subseteq EdgePairs(G)
        /\ Cardinality(task_edge_pairs) <= Min(num_task_edges, Len(G.edges) \div 2)
        /\ NoParallelEdges(G) =>
             Cardinality(task_edge_pairs) = Min(num_task_edges, Len(G.edges) \div 2)

\* a selection that sampled two parallel edges and returned their one pair
C6_Witness ==
    /\ call = "create_network_with_basemap"
    /\ pc = "return"
    /\ Cardinality(task_edge_pairs) = 1
    /\ Min(num_task_edges, Len(G.edges) \div 2) = 2

\* ------------------------------------------------- claims on main()
\* the node whose coordinates the exported node list holds at index i
NodesAt(g, i) ==
    IF i + 1 \in DOMAIN result.node_coords
    THEN {n \in g.nodes : Coord(n) = result.node_coords[i + 1]}
    ELSE {}

\* C5: every index pair of the exported task-edge list maps back to node ids
\* u, v that an edge of the exported graph joins.
C5_TaskEdgesAreEdges ==
    (call = "main" /\ pc = "main_return") =>
        \A t \in result.task_edges_list :
            \E a \in NodesAt(G, t[1]) : \E b \in NodesAt(G, t[2]) :
                \E e \in Range(G.edges) : {e.u, e.v} = {a, b}

\* main() has exported task edges after the reduction branch was taken; one
\* of them joins nodes that are not the first of the node list
C5_Witness ==
    /\ call = "main"
    /\ pc = "main_return"
    /\ reduced # None
    /\ \E t \in result.task_edges_list : t[1] > 0 /\ t[2] > t[1]

\* C10: when the reduction ran, the exported graph is the reducer's output:
\* the exported node list is the node list of the reduced graph.
C10_ExportsReducedGraph ==
    (call = "main" /\ pc = "main_return" /\ reduced # None) =>
        result.node_coords = node_coords(reduced)

====
